---- MODULE Spec2Model ----
(***************************************************************************)
(* Model of main.py: the manifest renderer.  One run loads envs.yaml,      *)
(* selects the section of the environment named by --env, renders a        *)
(* template of templates/ with it and either prints the result (--dry-run) *)
(* or writes it to <outdir>/deployment-<env>.yaml.                         *)
(*                                                                         *)
(* Text is modelled as a sequence of tokens (strings); a printed line is   *)
(* one such sequence.  The filesystem below BASE_DIR is a function from    *)
(* paths (sequences of segments) to entries <<kind, text>>.                *)
(***************************************************************************)
EXTENDS Naturals, Integers, Sequences, FiniteSets, TLC

VARIABLES
    args,          \* the parsed command line: env, template, outdir, dry_run
    configDoc,     \* envs.yaml as found on disk
    templatesDir,  \* templates/: template name -> kind of file found
    fs,            \* the output area of the filesystem
    pc,            \* stage of the whole-program state machine
    all_envs,      \* load_env_config's local: the loaded document
    env_config,    \* main's local: the selected section
    rendered,      \* main's local: the rendered text
    stdout,        \* lines printed so far
    exitCode,      \* the process exit status (NotExited while running)
    raised,        \* how the run ended: "none", "SystemExit" or the uncaught exception
    calls,         \* history: the functions of main.py invoked, in order
    stages,        \* history: the stages entered, in order
    fs0,           \* the filesystem when the current run started
    run,           \* number of the current run (1 for the first)
    prevExit,      \* exit status of the previous run
    prevFs         \* the filesystem when the previous run terminated

vars == <<args, configDoc, templatesDir, fs, pc, all_envs, env_config, rendered,
          stdout, exitCode, raised, calls, stages, fs0, run, prevExit, prevFs>>

world == <<args, configDoc, templatesDir>>

----------------------------------------------------------------------------
(* Bounds of the model *)

\* most entries that exist below BASE_DIR before the first run
MaxPreexisting == 2
\* most runs of the program in sequence
MaxRuns == 2

----------------------------------------------------------------------------
(* The inputs *)

\* names --env is drawn from; "qa" is never a key of envs.yaml
EnvNames == {"dev", "prod", "qa"}
KeyNames == {"dev", "prod"}

\* the data found under an environment name: two mappings and a bare scalar
Values == {"svcA", "svcB", "scalar"}

IsMapping(v) == v # "scalar"

\* the key/value data of a mapping value
ContextOf(v) ==
    CASE v = "svcA" -> [name |-> "svc-a", replicas |-> "2"]
      [] v = "svcB" -> [name |-> "svc-b"]

DefaultTemplate == "deployment.yaml.j2"
TemplateNames == {DefaultTemplate, "svc.yaml.j2"}
TemplateKinds == {"absent", "good", "syntax"}

\* templates/ as found: the default template in any state, the other one
\* present or not
TemplateDirs == {d \in [TemplateNames -> TemplateKinds] :
                    \A n \in TemplateNames \ {DefaultTemplate} : d[n] # "syntax"}

\* the text of a well-formed template file
TemplateBody(name) ==
    IF name = DefaultTemplate
    THEN <<"name:", "{{ name }}", "replicas:", "{{ replicas }}">>
    ELSE <<"service:", "{{ name }}">>

DefaultOutdir == <<"build">>
Outdirs == {DefaultOutdir, <<"out", "manifests">>}

NoDups(s) == \A i, j \in DOMAIN s : i # j => s[i] # s[j]

\* the key orders of a document: every sequence of distinct key names
KeySeqs == {s \in UNION {[1..n -> KeyNames] : n \in 1..Cardinality(KeyNames)} : NoDups(s)}

\* the value a key of the model's envs.yaml carries: dev has svcA or a scalar,
\* prod has svcB or a scalar
ValueChoices(k) == IF k = "dev" THEN {"svcA", "scalar"} ELSE {"svcB", "scalar"}

ConfigDocs ==
    {[kind |-> k, keys |-> <<>>, vals |-> <<>>] : k \in {"missing", "malformed", "empty"}}
    \cup {[kind |-> "sequence", keys |-> <<k>>, vals |-> <<>>] : k \in KeyNames}
    \cup {[kind |-> "mapping", keys |-> s, vals |-> v] :
            s \in KeySeqs, v \in UNION {[1..n -> Values] : n \in 1..Cardinality(KeyNames)}}

WellFormedDoc(d) ==
    d.kind = "mapping" => /\ Len(d.vals) = Len(d.keys)
                          /\ \A i \in DOMAIN d.keys : d.vals[i] \in ValueChoices(d.keys[i])

----------------------------------------------------------------------------
(* The filesystem below BASE_DIR *)

Absent == <<"absent", <<>>>>
Dir == <<"dir", <<>>>>
File(text) == <<"file", text>>

\* what an output file holds before the first run, when it exists
StaleText == <<"stale">>

FileName(env_name) == "deployment-" \o env_name \o ".yaml"

\* mutant: the file name does not follow --env
OutFile_FixedName(outdir, env_name) == Append(outdir, FileName("dev"))

\* out_file of write_build_file
OutFile(outdir, env_name) == Append(outdir, FileName(env_name))

Parent(p) == SubSeq(p, 1, Len(p) - 1)

DirPaths == UNION {{SubSeq(d, 1, n) : n \in 1..Len(d)} : d \in Outdirs}
FilePaths == {Append(d, "deployment-" \o e \o ".yaml") : d \in Outdirs, e \in KeyNames}
AllPaths == DirPaths \cup FilePaths

\* BASE_DIR itself always exists
Kind(f, p) == IF p = <<>> THEN "dir" ELSE f[p][1]

\* an entry exists only inside a directory
Consistent(f) == \A p \in AllPaths : f[p] # Absent => Kind(f, Parent(p)) = "dir"

InitFs ==
    {f \in [AllPaths -> {Absent, Dir, File(StaleText)}] :
        /\ Consistent(f)
        /\ Cardinality({p \in AllPaths : f[p] # Absent}) <= MaxPreexisting}

----------------------------------------------------------------------------
(* pathlib and file operations used by write_build_file *)

\* Path.mkdir(parents=True, exist_ok=True): creates the missing segments from
\* the top; an existing directory is accepted, an existing file is an error
RECURSIVE mkdir(_, _)
mkdir(f, p) ==
    IF Kind(f, p) = "dir" THEN [err |-> "none", fs |-> f]
    ELSE IF Kind(f, p) = "file" THEN [err |-> "FileExistsError", fs |-> f]
    ELSE IF Kind(f, Parent(p)) = "file" THEN [err |-> "NotADirectoryError", fs |-> f]
    ELSE LET up == mkdir(f, Parent(p))
         IN  IF up.err # "none" THEN up
             ELSE [err |-> "none", fs |-> [up.fs EXCEPT ![p] = Dir]]

\* mutant: the file is opened for appending
write_text_Append(f, p, content) ==
    IF Kind(f, p) = "dir" THEN [err |-> "IsADirectoryError", fs |-> f]
    ELSE IF Kind(f, Parent(p)) # "dir" THEN [err |-> "FileNotFoundError", fs |-> f]
    ELSE [err |-> "none", fs |-> [f EXCEPT ![p] = File(f[p][2] \o content)]]

\* Path.write_text(content): opens the file for writing (truncating it) and
\* writes the whole text
write_text(f, p, content) ==
    IF Kind(f, p) = "dir" THEN [err |-> "IsADirectoryError", fs |-> f]
    ELSE IF Kind(f, Parent(p)) # "dir" THEN [err |-> "FileNotFoundError", fs |-> f]
    ELSE [err |-> "none", fs |-> [f EXCEPT ![p] = File(content)]]

\* the I/O faults the operating system may answer with (permission denied,
\* disk full), whatever the state of the tree
Faults == {"none", "mkdir", "open", "write"}

\* write_build_file under fault `fault`; `cut` is how much of a segment list
\* (fault "mkdir") or of the text (fault "write") got through before the fault
WroteLine(out_file) == <<"[INFO]", "Wrote rendered manifest to">> \o out_file

write_build_file(f, env_name, content, outdir, fault, cut) ==
    LET made == IF fault = "mkdir" THEN mkdir(f, SubSeq(outdir, 1, cut)) ELSE mkdir(f, outdir)
        out_file == OutFile(outdir, env_name)
        wrote == IF fault = "write"
                 THEN write_text(made.fs, out_file, SubSeq(content, 1, cut))
                 ELSE write_text(made.fs, out_file, content)
    IN  IF made.err # "none" THEN [err |-> made.err, fs |-> made.fs, out |-> <<>>]
        ELSE IF fault = "mkdir" THEN [err |-> "PermissionError", fs |-> made.fs, out |-> <<>>]
        ELSE IF fault = "open"
             THEN [err |-> IF Kind(made.fs, out_file) = "dir"
                           THEN "IsADirectoryError" ELSE "PermissionError",
                   fs |-> made.fs, out |-> <<>>]
        ELSE IF wrote.err # "none" THEN [err |-> wrote.err, fs |-> wrote.fs, out |-> <<>>]
        ELSE IF fault = "write" THEN [err |-> "OSError", fs |-> wrote.fs, out |-> <<>>]
        ELSE [err |-> "none", fs |-> wrote.fs,
              out |-> <<WroteLine(out_file)>>]

\* the cuts a fault can happen at: a mkdir fault hits a segment that has to be
\* created, after the segments above it were made; a write fault loses a
\* non-empty tail of the text
Cuts(f, content, outdir, fault) ==
    CASE fault = "mkdir" -> {n \in 0..(Len(outdir) - 1) :
                                /\ Kind(f, SubSeq(outdir, 1, n + 1)) = "absent"
                                /\ mkdir(f, SubSeq(outdir, 1, n)).err = "none"}
      [] fault = "write" -> 0..(Len(content) - 1)
      [] OTHER -> {0}

----------------------------------------------------------------------------
(* The loader and the renderer *)

ConfigPath == "envs.yaml"

\* Python values of the loader: None, a dict (keys in document order) or a list
None == [type |-> "none", keys |-> <<>>, vals |-> <<>>]
EmptyDict == [type |-> "dict", keys |-> <<>>, vals |-> <<>>]

\* mutant: a document that does not parse is swallowed and loads as nothing
yaml_safe_load_Lenient(d) ==
    CASE d.kind \in {"malformed", "empty"} -> [err |-> "none", value |-> None]
      [] d.kind = "sequence" ->
            [err |-> "none", value |-> [type |-> "list", keys |-> d.keys, vals |-> <<>>]]
      [] d.kind = "mapping" ->
            [err |-> "none", value |-> [type |-> "dict", keys |-> d.keys, vals |-> d.vals]]

\* yaml.safe_load: raises on a malformed document, gives None for an empty one
yaml_safe_load(d) ==
    CASE d.kind = "malformed" -> [err |-> "YAMLError", value |-> None]
      [] d.kind = "empty" -> [err |-> "none", value |-> None]
      [] d.kind = "sequence" ->
            [err |-> "none", value |-> [type |-> "list", keys |-> d.keys, vals |-> <<>>]]
      [] d.kind = "mapping" ->
            [err |-> "none", value |-> [type |-> "dict", keys |-> d.keys, vals |-> d.vals]]

\* `yaml.safe_load(f) or {}`: a falsy document becomes the empty dict
OrEmptyDict(v) == IF v.type = "none" \/ v.keys = <<>> THEN EmptyDict ELSE v

\* `env_name in all_envs`: a key of the dict, or an item of the list
Contains(envs, env_name) == \E i \in DOMAIN envs.keys : envs.keys[i] = env_name

\* `all_envs[env_name]`, for a key of the dict
GetItem(envs, env_name) ==
    envs.vals[CHOOSE i \in DOMAIN envs.keys : envs.keys[i] = env_name]

\* the two diagnostics of an unknown environment; `', '.join(all_envs.keys())`
\* lists the keys in document order
NotFoundLine(env_name) == <<"[ERROR]", "Environment", env_name, "not found in", ConfigPath>>
\* mutant: the names of the help text are listed, not the keys of the document
AvailableLine_Hardcoded(envs) == <<"Available envs:", "dev", "prod">>

AvailableLine(envs) == <<"Available envs:">> \o envs.keys

\* mutant: a missing template falls back to the default template
get_template_Fallback(dir, template_name) ==
    LET name == IF dir[template_name] = "absent" THEN DefaultTemplate ELSE template_name
    IN  CASE dir[name] = "absent" -> [err |-> "TemplateNotFound", body |-> <<>>]
          [] dir[name] = "syntax" -> [err |-> "TemplateSyntaxError", body |-> <<>>]
          [] dir[name] = "good" -> [err |-> "none", body |-> TemplateBody(name)]

\* env.get_template(template_name): the template file of that name under
\* templates/, parsed
get_template(dir, template_name) ==
    CASE dir[template_name] = "absent" -> [err |-> "TemplateNotFound", body |-> <<>>]
      [] dir[template_name] = "syntax" -> [err |-> "TemplateSyntaxError", body |-> <<>>]
      [] dir[template_name] = "good" -> [err |-> "none", body |-> TemplateBody(template_name)]

\* the variable a template token substitutes, "" for literal text
VarOf(tok) ==
    CASE tok = "{{ name }}" -> "name"
      [] tok = "{{ replicas }}" -> "replicas"
      [] OTHER -> ""

\* template.render(**context): every placeholder is replaced by the value found
\* in the context, and by the empty string when the context lacks the variable
Render(body, context) ==
    [i \in DOMAIN body |->
        IF VarOf(body[i]) = "" THEN body[i]
        ELSE IF VarOf(body[i]) \in DOMAIN context THEN context[VarOf(body[i])]
        ELSE ""]

----------------------------------------------------------------------------
(* Process state *)

NotExited == 0 - 1

\* status of a process ended by an exception nothing caught
UncaughtExitCode == 1

Stages == {"Start", "ConfigLoaded", "EnvironmentSelected", "Rendered",
           "PrintedToStdout", "WrittenToFile", "Terminated"}

Init ==
    /\ fs \in InitFs
    /\ configDoc \in {d \in ConfigDocs : WellFormedDoc(d)}
    /\ templatesDir \in TemplateDirs
    /\ args \in [env : EnvNames, template : TemplateNames, outdir : Outdirs,
                 dry_run : BOOLEAN]
    /\ fs0 = fs
    /\ pc = "Start"
    /\ all_envs = None
    /\ env_config = "unset"
    /\ rendered = <<>>
    /\ stdout = <<>>
    /\ exitCode = NotExited
    /\ raised = "none"
    /\ calls = <<>>
    /\ stages = <<"Start">>
    /\ run = 1
    /\ prevExit = NotExited
    /\ prevFs = fs

\* sys.exit(code)
SysExit(code) ==
    /\ pc' = "Terminated"
    /\ stages' = Append(stages, "Terminated")
    /\ exitCode' = code
    /\ raised' = "SystemExit"

\* an exception no handler catches leaves main and ends the process
Uncaught(exc) ==
    /\ pc' = "Terminated"
    /\ stages' = Append(stages, "Terminated")
    /\ exitCode' = UncaughtExitCode
    /\ raised' = exc

\* the run goes on to its next stage
Enter(stage) ==
    /\ pc' = stage
    /\ stages' = Append(stages, stage)
    /\ UNCHANGED <<exitCode, raised>>

----------------------------------------------------------------------------
(* The steps of main *)

ConfigNotFoundLine == <<"[ERROR]", "Config file", ConfigPath, "not found.">>

\* load_env_config, first half: find and parse envs.yaml
LoadConfig ==
    /\ pc = "Start"
    /\ calls' = Append(calls, "load_env_config")
    /\ IF configDoc.kind = "missing"
       THEN /\ stdout' = Append(stdout, ConfigNotFoundLine)
            /\ SysExit(1)
            /\ UNCHANGED all_envs
       ELSE LET loaded == yaml_safe_load(configDoc)
            IN  IF loaded.err # "none"
                THEN /\ Uncaught(loaded.err)
                     /\ UNCHANGED <<stdout, all_envs>>
                ELSE /\ all_envs' = OrEmptyDict(loaded.value)
                     /\ Enter("ConfigLoaded")
                     /\ UNCHANGED stdout
    /\ UNCHANGED <<world, fs, env_config, rendered, fs0, run, prevExit, prevFs>>

\* mutant: the unknown environment is reported but the loader does not exit,
\* and the lookup that follows raises
SelectEnv_NoExit ==
    /\ pc = "ConfigLoaded"
    /\ IF ~Contains(all_envs, args.env)
       THEN /\ stdout' = IF all_envs.type = "list"
                         THEN Append(stdout, NotFoundLine(args.env))
                         ELSE stdout \o <<NotFoundLine(args.env), AvailableLine(all_envs)>>
            /\ Uncaught(IF all_envs.type = "list" THEN "AttributeError" ELSE "KeyError")
            /\ UNCHANGED env_config
       ELSE IF all_envs.type = "list"
            THEN /\ Uncaught("TypeError")
                 /\ UNCHANGED <<stdout, env_config>>
            ELSE /\ env_config' = GetItem(all_envs, args.env)
                 /\ Enter("EnvironmentSelected")
                 /\ UNCHANGED stdout
    /\ UNCHANGED <<world, fs, all_envs, rendered, calls, fs0, run, prevExit, prevFs>>

\* load_env_config, second half: pick the section of the environment
SelectEnv ==
    /\ pc = "ConfigLoaded"
    /\ IF ~Contains(all_envs, args.env)
       THEN IF all_envs.type = "list"
            THEN \* a list has no keys(): the second print raises
                 /\ stdout' = Append(stdout, NotFoundLine(args.env))
                 /\ Uncaught("AttributeError")
                 /\ UNCHANGED env_config
            ELSE /\ stdout' = stdout \o <<NotFoundLine(args.env), AvailableLine(all_envs)>>
                 /\ SysExit(2)
                 /\ UNCHANGED env_config
       ELSE IF all_envs.type = "list"
            THEN \* a list is not indexed by a name
                 /\ Uncaught("TypeError")
                 /\ UNCHANGED <<stdout, env_config>>
            ELSE /\ env_config' = GetItem(all_envs, args.env)
                 /\ Enter("EnvironmentSelected")
                 /\ UNCHANGED stdout
    /\ UNCHANGED <<world, fs, all_envs, rendered, calls, fs0, run, prevExit, prevFs>>

TemplateNotFoundLine(template_name) ==
    <<"[ERROR]", "Template", template_name, "not found in", "templates">>

\* the body of render_template: look the template up, render it
RenderSteps ==
    /\ calls' = Append(calls, "render_template")
    /\ LET template == get_template(templatesDir, args.template)
       IN  CASE template.err = "TemplateNotFound" ->
                  /\ stdout' = Append(stdout, TemplateNotFoundLine(args.template))
                  /\ SysExit(3)
                  /\ UNCHANGED rendered
             [] template.err \notin {"none", "TemplateNotFound"} ->
                  \* only TemplateNotFound is caught
                  /\ Uncaught(template.err)
                  /\ UNCHANGED <<stdout, rendered>>
             [] template.err = "none" ->
                  IF ~IsMapping(env_config)
                  THEN \* `**context` needs a mapping
                       /\ Uncaught("TypeError")
                       /\ UNCHANGED <<stdout, rendered>>
                  ELSE /\ rendered' = Render(template.body, ContextOf(env_config))
                       /\ Enter("Rendered")
                       /\ UNCHANGED stdout

\* mutant: the output directory is made before the template is looked up
RenderTemplate_EagerMkdir ==
    /\ pc = "EnvironmentSelected"
    /\ RenderSteps
    /\ fs' = mkdir(fs, args.outdir).fs
    /\ UNCHANGED <<world, all_envs, env_config, fs0, run, prevExit, prevFs>>

\* main, step 2: render_template(args.template, env_config)
RenderTemplate ==
    /\ pc = "EnvironmentSelected"
    /\ RenderSteps
    /\ UNCHANGED <<world, fs, all_envs, env_config, fs0, run, prevExit, prevFs>>

\* mutant: the flag is not looked at
TakesDryRun_Ignored(a) == FALSE

\* `if args.dry_run`
TakesDryRun(a) == a.dry_run

DryRunLine == <<"[INFO]", "Dry run enabled. Rendering to stdout:">>

\* the dry-run branch: print the rendered text
PrintDryRun ==
    /\ pc = "Rendered"
    /\ TakesDryRun(args)
    /\ stdout' = stdout \o <<DryRunLine, rendered>>
    /\ Enter("PrintedToStdout")
    /\ UNCHANGED <<world, fs, all_envs, env_config, rendered, calls, fs0, run,
                   prevExit, prevFs>>

\* mutant: the dry-run branch does not exit and main goes on to write the file
ExitDryRun_FallThrough ==
    /\ pc = "PrintedToStdout"
    /\ calls' = Append(calls, "write_build_file")
    /\ LET w == write_build_file(fs, args.env, rendered, args.outdir, "none", 0)
       IN  /\ fs' = w.fs
           /\ stdout' = stdout \o w.out
           /\ IF w.err = "none" THEN Enter("WrittenToFile") ELSE Uncaught(w.err)
    /\ UNCHANGED <<world, all_envs, env_config, rendered, fs0, run, prevExit, prevFs>>

\* the dry-run branch ends the run
ExitDryRun ==
    /\ pc = "PrintedToStdout"
    /\ SysExit(0)
    /\ UNCHANGED <<world, fs, all_envs, env_config, rendered, stdout, calls, fs0, run,
                   prevExit, prevFs>>

\* the write branch: write_build_file(args.env, rendered, outdir_path)
WriteBuildFile ==
    /\ pc = "Rendered"
    /\ ~TakesDryRun(args)
    /\ calls' = Append(calls, "write_build_file")
    /\ \E fault \in Faults :
         \E cut \in Cuts(fs, rendered, args.outdir, fault) :
            LET w == write_build_file(fs, args.env, rendered, args.outdir, fault, cut)
            IN  /\ fs' = w.fs
                /\ stdout' = stdout \o w.out
                /\ IF w.err = "none" THEN Enter("WrittenToFile") ELSE Uncaught(w.err)
    /\ UNCHANGED <<world, all_envs, env_config, rendered, fs0, run, prevExit, prevFs>>

FinishedLine == <<"[OK]", "Render finished.">>

\* the write branch ends the run
Finish ==
    /\ pc = "WrittenToFile"
    /\ stdout' = Append(stdout, FinishedLine)
    /\ SysExit(0)
    /\ UNCHANGED <<world, fs, all_envs, env_config, rendered, calls, fs0, run,
                   prevExit, prevFs>>

\* the program is started again on the same inputs and the same tree
Rerun ==
    /\ pc = "Terminated"
    /\ run < MaxRuns
    /\ run' = run + 1
    /\ prevExit' = exitCode
    /\ prevFs' = fs
    /\ fs0' = fs
    /\ pc' = "Start"
    /\ all_envs' = None
    /\ env_config' = "unset"
    /\ rendered' = <<>>
    /\ stdout' = <<>>
    /\ exitCode' = NotExited
    /\ raised' = "none"
    /\ calls' = <<>>
    /\ stages' = <<"Start">>
    /\ UNCHANGED <<world, fs>>

Next ==
    \/ LoadConfig
    \/ SelectEnv
    \/ RenderTemplate
    \/ PrintDryRun
    \/ ExitDryRun
    \/ WriteBuildFile
    \/ Finish

Spec == Init /\ [][Next]_vars

\* one run: the interpreter runs main to its end
FairSpec == Spec /\ WF_vars(Next)

NextRerun == Next \/ Rerun

\* runs of the program in sequence
SpecRerun == Init /\ [][NextRerun]_vars

----------------------------------------------------------------------------
(* Vocabulary of the properties, stated over the inputs and the histories *)

Terminated == pc = "Terminated"

\* envs.yaml parses to a mapping (an empty document is the empty mapping)
RegistryLoads == configDoc.kind \in {"empty", "mapping"}

\* --env names a key of envs.yaml
EnvIsKey ==
    /\ configDoc.kind = "mapping"
    /\ \E i \in DOMAIN configDoc.keys : configDoc.keys[i] = args.env

\* the section envs.yaml holds for --env
SectionOfEnv ==
    configDoc.vals[CHOOSE i \in DOMAIN configDoc.keys : configDoc.keys[i] = args.env]

\* the inputs every stage accepts
RunCanSucceed ==
    /\ EnvIsKey
    /\ SectionOfEnv # "scalar"
    /\ templatesDir[args.template] = "good"

\* the text such a run has to produce: the template with the values of the
\* section of --env in place of its placeholders
ExpectedText ==
    LET body == TemplateBody(args.template)
        data == ContextOf(SectionOfEnv)
        value(k) == IF k \in DOMAIN data THEN data[k] ELSE ""
    IN  [i \in DOMAIN body |->
            CASE body[i] = "{{ name }}" -> value("name")
              [] body[i] = "{{ replicas }}" -> value("replicas")
              [] OTHER -> body[i]]

\* the stage the run was in when it terminated
LastStage == stages[Len(stages) - 1]

Called(fn) == \E i \in DOMAIN calls : calls[i] = fn

\* the failure class of a terminated run, "none" for a run that did not fail
FailureClass ==
    CASE LastStage = "Start" ->
            IF configDoc.kind = "missing" THEN "ConfigNotFound" ELSE "ConfigParseError"
      [] LastStage = "ConfigLoaded" ->
            IF RegistryLoads THEN "EnvironmentNotFound" ELSE "ConfigShapeError"
      [] LastStage = "EnvironmentSelected" ->
            IF templatesDir[args.template] = "absent" THEN "TemplateNotFound"
            ELSE "RenderError"
      [] LastStage = "Rendered" -> "OutputWriteError"
      [] OTHER -> "none"

\* the lines a run prints when it fails: none of them carries rendered text
Diagnostics ==
    {ConfigNotFoundLine, NotFoundLine(args.env), TemplateNotFoundLine(args.template)}
    \cup {<<"Available envs:">> \o k : k \in KeySeqs \cup {<<>>}}

OnlyDiagnosticsPrinted == \A i \in DOMAIN stdout : stdout[i] \in Diagnostics

\* the directories on the way to --outdir, --outdir included
OutdirChain == {SubSeq(args.outdir, 1, n) : n \in 1..Len(args.outdir)}

----------------------------------------------------------------------------
(* C1 *)

\* C1: every failure class ends the process with its own nonzero exit code:
\* configuration file missing 1, environment not found 2, template not found 3,
\* every other failure class (malformed document, failed directory creation or
\* file write, ...) a nonzero code that is none of these three, and exit code 0
\* only for a run without failure.
C1_DistinctExitCodes ==
    Terminated =>
        /\ (exitCode = 0) <=> (FailureClass = "none")
        /\ FailureClass = "ConfigNotFound" => exitCode = 1
        /\ FailureClass = "EnvironmentNotFound" => exitCode = 2
        /\ FailureClass = "TemplateNotFound" => exitCode = 3
        /\ FailureClass \notin {"none", "ConfigNotFound", "EnvironmentNotFound",
                                "TemplateNotFound"} => exitCode \notin {0, 1, 2, 3}

----------------------------------------------------------------------------
(* C2 *)

\* C2: when --env is not a key of the loaded registry, the run ends with exit
\* code 2 before render_template is invoked, and nothing rendered is printed
\* or written: the run never leaves the loader, render_template and
\* write_build_file are not called, only the two diagnostics are printed and
\* the filesystem is as it was.
C2_UnknownEnvStopsBeforeRender ==
    (RegistryLoads /\ ~EnvIsKey) =>
        /\ pc \in {"Start", "ConfigLoaded", "Terminated"}
        /\ Terminated => (exitCode = 2 /\ raised = "SystemExit")
        /\ ~Called("render_template")
        /\ ~Called("write_build_file")
        /\ rendered = <<>>
        /\ OnlyDiagnosticsPrinted
        /\ fs = fs0

C2_Witness ==
    /\ Terminated
    /\ configDoc.kind = "mapping"
    /\ ~EnvIsKey
    /\ exitCode = 2
    /\ ~args.dry_run

----------------------------------------------------------------------------
(* C3 *)

\* C3: a dry run on inputs every stage accepts prints the rendered text and
\* ends with exit code 0; a dry run never calls write_build_file and leaves
\* every path as it was (no directory made, no file created or changed).
C3_DryRunLeavesFilesystem ==
    args.dry_run =>
        /\ fs = fs0
        /\ ~Called("write_build_file")
        /\ (Terminated /\ RunCanSucceed) =>
              /\ exitCode = 0
              /\ stdout = <<DryRunLine, ExpectedText>>

C3_Witness ==
    /\ Terminated
    /\ args.dry_run
    /\ RunCanSucceed
    /\ exitCode = 0
    /\ fs[args.outdir] = Absent

----------------------------------------------------------------------------
(* C4 *)

\* C4: a successful run in write mode leaves --outdir and every directory
\* above it existing, leaves the rendered text as the whole content of
\* <outdir>/deployment-<env>.yaml, and changes no other path; a directory on
\* the way that changed was missing before.
C4_WriteModeOneFile ==
    (Terminated /\ ~args.dry_run /\ exitCode = 0) =>
        /\ \A d \in OutdirChain : fs[d] = Dir /\ fs0[d] \in {Absent, Dir}
        /\ fs[Append(args.outdir, "deployment-" \o args.env \o ".yaml")] = File(ExpectedText)
        /\ \A p \in AllPaths :
              (p \notin OutdirChain
               /\ p # Append(args.outdir, "deployment-" \o args.env \o ".yaml"))
              => fs[p] = fs0[p]

C4_Witness ==
    /\ Terminated
    /\ ~args.dry_run
    /\ exitCode = 0
    /\ Len(args.outdir) = 2
    /\ fs0[SubSeq(args.outdir, 1, 1)] = Absent
    /\ args.env = "prod"

----------------------------------------------------------------------------
(* C5 *)

\* C5: a second successful write-mode run on the same inputs leaves the
\* filesystem exactly as the first successful run left it: the output file has
\* the same content (overwritten, not appended to) and nothing is added.
C5_WriteIdempotent ==
    (run >= 2 /\ Terminated /\ ~args.dry_run /\ exitCode = 0 /\ prevExit = 0) =>
        /\ fs = prevFs
        /\ fs[Append(args.outdir, "deployment-" \o args.env \o ".yaml")] = File(ExpectedText)

C5_Witness ==
    /\ run = 2
    /\ Terminated
    /\ ~args.dry_run
    /\ exitCode = 0
    /\ prevExit = 0
    /\ fs = prevFs

----------------------------------------------------------------------------
(* C6 *)

\* C6: when --env is absent from the loaded configuration, the run ends with
\* exit code 2 and its second diagnostic lists exactly the environment names
\* of the configuration: every one of them and no other name; for an empty
\* document the list is empty and the exit code is 2 as well.
C6_DiagnosticListsEnvs ==
    (Terminated /\ RegistryLoads /\ ~EnvIsKey) =>
        /\ exitCode = 2
        /\ Len(stdout) = 2
        /\ stdout[2][1] = "Available envs:"
        /\ {stdout[2][i] : i \in 2..Len(stdout[2])}
              = {configDoc.keys[i] : i \in DOMAIN configDoc.keys}
        /\ Len(stdout[2]) = 1 + Len(configDoc.keys)
        /\ configDoc.kind = "empty" => stdout[2] = <<"Available envs:">>

C6_Witness ==
    /\ Terminated
    /\ configDoc.kind = "mapping"
    /\ Len(configDoc.keys) = 1
    /\ ~EnvIsKey
    /\ Len(stdout) = 2
    /\ Len(stdout[2]) = 2

----------------------------------------------------------------------------
(* C7 *)

\* C7: with envs.yaml present and --env one of its keys, a template name that
\* is no file under templates/ ends the run with exit code 3 before any output
\* is produced, with or without --dry-run: only the template diagnostic is
\* printed, write_build_file is not called and no path changes.
C7_MissingTemplateExits3 ==
    (EnvIsKey /\ templatesDir[args.template] = "absent") =>
        /\ pc \in {"Start", "ConfigLoaded", "EnvironmentSelected", "Terminated"}
        /\ Terminated =>
              /\ exitCode = 3
              /\ raised = "SystemExit"
              /\ stdout = <<TemplateNotFoundLine(args.template)>>
        /\ rendered = <<>>
        /\ ~Called("write_build_file")
        /\ fs = fs0

C7_Witness ==
    /\ Terminated
    /\ EnvIsKey
    /\ templatesDir[args.template] = "absent"
    /\ exitCode = 3
    /\ Called("render_template")

----------------------------------------------------------------------------
(* C8 *)

\* C8: a malformed envs.yaml makes the loader fail with a parse error, an
\* outcome no other input of the loader produces (a missing file and an
\* unknown environment end in SystemExit, a success returns); the malformed
\* document is never loaded as an empty mapping, while an empty document is
\* loaded as the empty registry.
C8_ParseErrorDistinct ==
    /\ (configDoc.kind = "malformed" /\ pc # "Start") =>
          /\ Terminated
          /\ raised = "YAMLError"
          /\ all_envs = None
          /\ stdout = <<>>
    /\ raised = "YAMLError" => configDoc.kind = "malformed"
    /\ (configDoc.kind = "empty" /\ pc # "Start") =>
          /\ all_envs = EmptyDict
          /\ raised \in {"none", "SystemExit"}

C8_Witness ==
    /\ Terminated
    /\ configDoc.kind = "malformed"
    /\ raised = "YAMLError"
    /\ Called("load_env_config")

----------------------------------------------------------------------------
(* C9 *)

\* the stages of a run without failure, in order
SuccessPath ==
    <<"Start", "ConfigLoaded", "EnvironmentSelected", "Rendered",
      IF args.dry_run THEN "PrintedToStdout" ELSE "WrittenToFile", "Terminated">>

\* the stages entered so far are a beginning of the success path, or such a
\* beginning cut short by Terminated
StagesInOrder ==
    /\ pc = stages[Len(stages)]
    /\ Len(stages) <= Len(SuccessPath)
    /\ \A i \in DOMAIN stages :
          \/ stages[i] = SuccessPath[i]
          \/ i = Len(stages) /\ i > 1 /\ stages[i] = "Terminated"

\* C9: every run goes through Start, ConfigLoaded, EnvironmentSelected,
\* Rendered, then one of PrintedToStdout and WrittenToFile, then Terminated; a
\* failure goes straight to Terminated; no stage is entered twice or skipped,
\* none is gone back to, and every run reaches Terminated.
C9_StageMachine == [](StagesInOrder) /\ <>(pc = "Terminated")

C9_Witness ==
    /\ Terminated
    /\ stages = <<"Start", "ConfigLoaded", "EnvironmentSelected", "Rendered",
                  "WrittenToFile", "Terminated">>

----------------------------------------------------------------------------
(* C10 *)

\* C10: a run that fails before the write stage (in the loader or in the
\* renderer) terminates with every path as it was when the run started, with
\* or without --dry-run.
C10_FailureLeavesNoArtifacts ==
    (Terminated /\ LastStage \in {"Start", "ConfigLoaded", "EnvironmentSelected"}) =>
        /\ exitCode # 0
        /\ fs = fs0
        /\ ~Called("write_build_file")

C10_Witness ==
    /\ Terminated
    /\ raised = "TemplateSyntaxError"
    /\ ~args.dry_run
    /\ fs = fs0

====
